---------------------------- MODULE Spec2Model ----------------------------
(***************************************************************************)
(* A model of radicle-client-services:                                     *)
(*   - the git-server pre-receive hook (git-server/src/hooks/              *)
(*     pre_receive.rs), specification Spec;                                *)
(*   - the org-node project tracker (org-node/src/lib.rs, track_projects), *)
(*     specifications SpecTracker and SpecTrackerFair;                     *)
(*   - the org-node orchestrator (run, process_anchors, process_urns and   *)
(*     the spawned tasks), specifications SpecRun, SpecRunFair and         *)
(*     SpecAnchors;                                                        *)
(*   - the org-node local update channel (update_refs), specification      *)
(*     SpecUpdateRefs.                                                     *)
(*                                                                         *)
(* Text is a sequence of one-character strings, bytes are sequences of     *)
(* naturals below 256, and Option<T> is a record [some, val].              *)
(***************************************************************************)
EXTENDS Integers, Sequences, FiniteSets

\* the pre-receive hook: its PreReceive value, its position, its verdict
VARIABLES env, updates, pc, result, gates, key_fingerprint, idx

\* the tracker: the work channel, its locals, its position, the ids it has
\* received that have had no Ok outcome yet, and what the channel held when
\* the current iteration of the loop began
VARIABLES queue, senders, sent, fused_done, work, urn, tpc, outstanding, avail

\* what an observer of the tracker writes down: the outcomes of the first
\* calls of handle.track_project, and the ids dispatched at least once
VARIABLES calls, dispatched

\* run: its position, the projects and the index of the process_anchors call
\* in progress and its caller, the operator's urns still to send, the spawned
\* tasks, the events in the subscriber's channel and how many it has sent, and
\* the ids sent on the work channel with their producer
VARIABLES rpc, projects, pidx, pa, urns, tasks, events, logs, sendlog

\* update_refs: its position, the number of lines read from the connection
\* and the line at hand, the connections accepted, the number of UpdatedRef
\* events in the dashboard channel per id and whether its receiver lives, and
\* the number of successful calls of handle.update_refs per id
VARIABLES upc, lines, line, conns, ws, ws_open, rpcs

hookVars == <<env, updates, pc, result, gates, key_fingerprint, idx>>

trackVars ==
    <<queue, senders, sent, fused_done, work, urn, tpc, outstanding, avail>>

observers == <<calls, dispatched>>

runVars == <<rpc, projects, pidx, pa, urns, tasks, events, logs, sendlog>>

refsVars == <<upc, lines, line, conns, ws, ws_open, rpcs>>

\* the variables of the org-node
nodeVars == <<trackVars, observers, runVars, refsVars>>

vars == <<hookVars, trackVars, observers, runVars, refsVars>>

-----------------------------------------------------------------------------
(* Bounds of the model *)

\* longest batch of ref updates read from stdin
MaxUpdates == 2

\* number of distinct project ids
MaxIds == 2

\* number of ids the producers send on the work channel in one run
MaxSends == 3

\* number of calls of handle.track_project that are recorded in calls
MaxCalls == 3

\* longest response of the indexer given to process_anchors alone
MaxProjects == 2

\* number of events the chain subscriber receives in one run
MaxEvents == 1

\* number of connections update_refs accepts in one run
MaxConns == 2

\* number of lines read from one connection
MaxLines == 2

-----------------------------------------------------------------------------
(* Option and text helpers (Rust std) *)

None == [some |-> FALSE, val |-> <<>>]

Some(x) == [some |-> TRUE, val |-> x]

\* Option<String> of whole-word values (statuses), None carrying the default ""
NoneStr == [some |-> FALSE, val |-> ""]

\* Option<bool>
NoneBool == [some |-> FALSE, val |-> FALSE]

starts_with(s, p) == Len(s) >= Len(p) /\ SubSeq(s, 1, Len(p)) = p

\* str::strip_prefix
strip_prefix(s, p) ==
    IF starts_with(s, p) THEN Some(SubSeq(s, Len(p) + 1, Len(s))) ELSE None

\* position of the first occurrence of character c in s, 0 when there is none
find_char(s, c) ==
    IF \E k \in 1..Len(s) : s[k] = c
    THEN CHOOSE k \in 1..Len(s) : s[k] = c /\ \A j \in 1..(k - 1) : s[j] # c
    ELSE 0

\* str::split_once: the text before and after the first c
split_once(s, c) ==
    LET k == find_char(s, c)
    IN  IF k = 0 THEN [some |-> FALSE, val |-> <<<<>>, <<>>>>]
        ELSE Some(<<SubSeq(s, 1, k - 1), SubSeq(s, k + 1, Len(s))>>)

\* str::split(c).collect(): "" gives [""], "a," gives ["a", ""]
RECURSIVE split(_, _)
split(s, c) ==
    LET k == find_char(s, c)
    IN  IF k = 0 THEN <<s>>
        ELSE <<SubSeq(s, 1, k - 1)>> \o split(SubSeq(s, k + 1, Len(s)), c)

\* Vec::contains
contains(v, x) == \E k \in 1..Len(v) : v[k] = x

-----------------------------------------------------------------------------
(* base64 (standard alphabet, padding optional on decode) *)

B64Chars ==
    << "A","B","C","D","E","F","G","H","I","J","K","L","M","N","O","P",
       "Q","R","S","T","U","V","W","X","Y","Z","a","b","c","d","e","f",
       "g","h","i","j","k","l","m","n","o","p","q","r","s","t","u","v",
       "w","x","y","z","0","1","2","3","4","5","6","7","8","9","+","/" >>

IsB64(c) == \E k \in 1..Len(B64Chars) : B64Chars[k] = c

B64Val(c) == (CHOOSE k \in 1..Len(B64Chars) : B64Chars[k] = c) - 1

RECURSIVE B64DecodeGroups(_)
B64DecodeGroups(s) ==
    IF Len(s) = 0 THEN <<>>
    ELSE IF Len(s) >= 4 THEN
        LET n == B64Val(s[1]) * 262144 + B64Val(s[2]) * 4096
                 + B64Val(s[3]) * 64 + B64Val(s[4])
        IN  <<n \div 65536, (n \div 256) % 256, n % 256>>
            \o B64DecodeGroups(SubSeq(s, 5, Len(s)))
    ELSE IF Len(s) = 3 THEN
        LET n == (B64Val(s[1]) * 4096 + B64Val(s[2]) * 64 + B64Val(s[3])) \div 4
        IN  <<n \div 256, n % 256>>
    ELSE <<(B64Val(s[1]) * 64 + B64Val(s[2])) \div 16>>

B64StripPad(s) ==
    IF Len(s) >= 2 /\ s[Len(s)] = "=" /\ s[Len(s) - 1] = "="
    THEN SubSeq(s, 1, Len(s) - 2)
    ELSE IF Len(s) >= 1 /\ s[Len(s)] = "=" THEN SubSeq(s, 1, Len(s) - 1)
    ELSE s

\* base64::decode: Err (None) on a character outside the alphabet or a
\* dangling single character
base64_decode(s) ==
    LET t == B64StripPad(s)
    IN  IF (\E k \in 1..Len(t) : ~IsB64(t[k])) \/ Len(t) % 4 = 1
        THEN None
        ELSE Some(B64DecodeGroups(t))

\* the encoding a signer's tooling prints (unpadded, as in ssh fingerprints)
RECURSIVE base64_encode(_)
base64_encode(b) ==
    IF Len(b) = 0 THEN <<>>
    ELSE IF Len(b) >= 3 THEN
        LET n == b[1] * 65536 + b[2] * 256 + b[3]
        IN  << B64Chars[(n \div 262144) + 1], B64Chars[((n \div 4096) % 64) + 1],
               B64Chars[((n \div 64) % 64) + 1], B64Chars[(n % 64) + 1] >>
            \o base64_encode(SubSeq(b, 4, Len(b)))
    ELSE IF Len(b) = 2 THEN
        LET n == (b[1] * 256 + b[2]) * 4
        IN  << B64Chars[(n \div 4096) + 1], B64Chars[((n \div 64) % 64) + 1],
               B64Chars[(n % 64) + 1] >>
    ELSE
        LET n == b[1] * 16
        IN  << B64Chars[(n \div 64) + 1], B64Chars[(n % 64) + 1] >>

-----------------------------------------------------------------------------
(* Peer ids and SSH fingerprints *)

\* textual peer ids of the model: P1 and P2 are well-formed, PX is text that
\* is no peer id
P1 == <<"p", "1">>

P2 == <<"p", "2">>

PX == <<"z", "z">>

\* PeerId::from_default_encoding: the ed25519 public key of a textual peer
\* id, Err (None) for text that encodes no key
from_default_encoding(remote) ==
    IF remote = P1 THEN Some([k \in 1..32 |-> 17])
    ELSE IF remote = P2 THEN Some([k \in 1..32 |-> 34])
    ELSE None

\* BigEndian write_u32
write_u32(n) ==
    <<(n \div 16777216) % 256, (n \div 65536) % 256, (n \div 256) % 256, n % 256>>

\* sha2::Sha256::digest, as a collision-free digest of byte strings
Sha256(buf) == [k \in 1..Len(buf) |-> (buf[k] * 7 + k) % 256]

\* b"ssh-ed25519"
SshEd25519Name == <<115, 115, 104, 45, 101, 100, 50, 53, 53, 49, 57>>

to_ssh_fingerprint(key) ==
    Sha256(write_u32(Len(SshEd25519Name)) \o SshEd25519Name
           \o write_u32(Len(key)) \o key)

-----------------------------------------------------------------------------
(* The environment and the standard input of one push *)

\* "refs/remotes/"
RefsRemotes == <<"r", "e", "f", "s", "/", "r", "e", "m", "o", "t", "e", "s", "/">>

\* "SHA256:"
Sha256Prefix == <<"S", "H", "A", "2", "5", "6", ":">>

\* refs/remotes/<peer>/h
RefOf(peer) == RefsRemotes \o peer \o <<"/", "h">>

\* refs/heads/m: outside refs/remotes/
RefHeads == <<"r", "e", "f", "s", "/", "h", "e", "a", "d", "s", "/", "m">>

\* refs/remotes/p1: no '/' after the peer
RefNoTail == RefsRemotes \o P1

RefNames == {RefOf(P1), RefOf(P2), RefOf(PX), RefHeads, RefNoTail}

\* GIT_PUSH_CERT_KEY of a push signed with the ssh key of peer
KeyOf(peer) ==
    Sha256Prefix
    \o base64_encode(to_ssh_fingerprint(from_default_encoding(peer).val))

\* a SHA256: key whose payload is not base64
KeyBadBase64 == Sha256Prefix \o <<"!", "!">>

\* a GPG key id (no SHA256: prefix)
KeyGpg == <<"A", "B", "C", "D">>

CertKeys == {None, Some(KeyOf(P1)), Some(KeyOf(P2)), Some(KeyBadBase64), Some(KeyGpg)}

RemoteUsers == {None, Some(P1), Some(P2), Some(PX)}

CertStatuses == {Some("G"), Some("B")}

NonceStatuses ==
    {NoneStr, Some("OK"), Some("UNKNOWN"), Some("SLOP"), Some("BAD")}

AuthorizedSshKeys == {None, Some(KeyOf(P1)), Some(KeyOf(P1) \o <<",">> \o KeyOf(P2))}

AuthorizedGpgKeys == {None, Some(KeyGpg)}

AllowUnauthorizedKeys == {NoneBool, Some(TRUE), Some(FALSE)}

\* ReceivePackEnv::init_from_env
ReceivePackEnv ==
    [ allow_unauthorized_keys : AllowUnauthorizedKeys,
      remote_user             : RemoteUsers,
      cert_key                : CertKeys,
      cert_status             : CertStatuses,
      cert_nonce_status       : NonceStatuses,
      authorized_gpg_keys     : AuthorizedGpgKeys,
      authorized_ssh_keys     : AuthorizedSshKeys ]

\* the tracker's variables while only the hook runs
TrackerNotStarted ==
    /\ queue = <<>>
    /\ senders = FALSE
    /\ sent = 0
    /\ fused_done = FALSE
    /\ work = <<>>
    /\ urn = 0
    /\ tpc = "idle"
    /\ outstanding = [u \in 1..MaxIds |-> 0]
    /\ avail = <<>>
    /\ calls = <<>>
    /\ dispatched = {}

\* run's variables while run is not modelled
RunNotStarted ==
    /\ rpc = "idle"
    /\ projects = <<>>
    /\ pidx = 0
    /\ pa = "idle"
    /\ urns = <<>>
    /\ tasks = [t \in {"web_server", "client_task", "event_task",
                        "update_refs_task", "query_task"} |-> "none"]
    /\ events = 0
    /\ logs = 0
    /\ sendlog = <<>>

\* update_refs's variables while update_refs is not modelled
UpdateRefsNotStarted ==
    /\ upc = "idle"
    /\ lines = 0
    /\ line = <<>>
    /\ conns = 0
    /\ ws = <<>>
    /\ ws_open = TRUE
    /\ rpcs = <<>>

\* the refnames of the lines of standard input, in order
Batches == UNION {[1..n -> RefNames] : n \in 0..MaxUpdates}

\* PreReceive::from_stdin: the state of a PreReceive right after construction
from_stdin ==
    /\ env \in ReceivePackEnv
    /\ updates \in Batches
    /\ pc = "hook"
    /\ result = "none"
    /\ gates = <<>>
    /\ key_fingerprint = <<>>
    /\ idx = 0

-----------------------------------------------------------------------------
(* The gates, as functions of the environment *)

\* CertNonceStatus::from_str: a word that is no status reads as UNKNOWN
CertNonceStatus_from_str(s) ==
    IF s \in {"UNSOLICITED", "MISSING", "BAD", "OK", "SLOP"} THEN s ELSE "UNKNOWN"

\* verify_certificate letting a SLOP nonce through
verify_certificate_slop_accepted(e) ==
    LET status == CertNonceStatus_from_str(e.cert_nonce_status.val)
    IN  IF status \in {"OK", "SLOP"} THEN "Ok" ELSE "FailedCertificateVerification"

verify_certificate(e) ==
    LET status == CertNonceStatus_from_str(e.cert_nonce_status.val)
    IN  IF status = "OK" THEN "Ok" ELSE "FailedCertificateVerification"

authorized_gpg_keys(e) ==
    IF e.authorized_gpg_keys.some THEN split(e.authorized_gpg_keys.val, ",") ELSE <<>>

authorized_ssh_keys(e) ==
    IF e.authorized_ssh_keys.some THEN split(e.authorized_ssh_keys.val, ",") ELSE <<>>

\* check_authorized_key allowing every key as soon as one list is unset
check_authorized_key_either_unset(e) ==
    IF e.cert_key.some
    THEN IF ~e.authorized_gpg_keys.some \/ ~e.authorized_ssh_keys.some
         THEN "Ok"
         ELSE IF \/ contains(authorized_ssh_keys(e), e.cert_key.val)
                 \/ contains(authorized_gpg_keys(e), e.cert_key.val)
              THEN "Ok"
              ELSE "Unauthorized"
    ELSE "Unauthorized"

\* check_authorized_key looking the key up in the SSH list only
check_authorized_key_ssh_only(e) ==
    IF e.cert_key.some
    THEN IF ~e.authorized_gpg_keys.some /\ ~e.authorized_ssh_keys.some
         THEN "Ok"
         ELSE IF contains(authorized_ssh_keys(e), e.cert_key.val)
              THEN "Ok"
              ELSE "Unauthorized"
    ELSE "Unauthorized"

check_authorized_key(e) ==
    IF e.cert_key.some
    THEN IF ~e.authorized_gpg_keys.some /\ ~e.authorized_ssh_keys.some
         THEN "Ok"
         ELSE IF \/ contains(authorized_ssh_keys(e), e.cert_key.val)
                 \/ contains(authorized_gpg_keys(e), e.cert_key.val)
              THEN "Ok"
              ELSE "Unauthorized"
    ELSE "Unauthorized"

\* lines 110-116 of authorize_ref_updates: the signer's fingerprint, None
\* when the remote user or the key is missing or malformed
signer_fingerprint(e) ==
    IF ~e.remote_user.some \/ ~e.cert_key.some THEN None
    ELSE LET stripped == strip_prefix(e.cert_key.val, Sha256Prefix)
         IN  IF ~stripped.some THEN None ELSE base64_decode(stripped.val)

\* the body of the loop without the comparison of lines 124-126
authorize_ref_fingerprint_only(refname, remote_user, fingerprint) ==
    LET suffix == strip_prefix(refname, RefsRemotes)
        parts  == split_once(suffix.val, "/")
        remote == parts.val[1]
        peer   == from_default_encoding(remote)
    IN  IF ~suffix.some THEN "Unauthorized"
        ELSE IF ~parts.some THEN "Unauthorized"
        ELSE IF ~peer.some THEN "Unauthorized"
        ELSE IF fingerprint # to_ssh_fingerprint(peer.val) THEN "Unauthorized"
        ELSE "Ok"

\* the body of the loop of authorize_ref_updates for one refname
authorize_ref(refname, remote_user, fingerprint) ==
    LET suffix == strip_prefix(refname, RefsRemotes)
        parts  == split_once(suffix.val, "/")
        remote == parts.val[1]
        peer   == from_default_encoding(remote)
    IN  IF ~suffix.some THEN "Unauthorized"
        ELSE IF ~parts.some THEN "Unauthorized"
        ELSE IF remote # remote_user THEN "Unauthorized"
        ELSE IF ~peer.some THEN "Unauthorized"
        ELSE IF fingerprint # to_ssh_fingerprint(peer.val) THEN "Unauthorized"
        ELSE "Ok"

\* check_project_exists: Ok(_) or the error of opening the repository or of
\* setting its namespace; git_dir and git_namespace are not modelled
ProjectChecks == {"Ok", "Git", "NamespaceNotFound"}

-----------------------------------------------------------------------------
(* PreReceive::hook, one step per gate *)

\* authenticate with the certificate gates before the per-ref authorization
authenticate_certificate_first ==
    <<"verify_certificate", "check_authorized_key", "authorize_ref_updates">>

\* authenticate(), lines 99-105: its three calls, in order
authenticate == <<"authorize_ref_updates", "verify_certificate", "check_authorized_key">>

Finish(r) ==
    /\ pc' = "done"
    /\ result' = r

\* the `?` after a gate of authenticate that returned Ok: on to the next
\* call, or Ok(()) after the last
Proceed(gate) ==
    LET k == CHOOSE j \in 1..Len(authenticate) : authenticate[j] = gate
    IN  IF k = Len(authenticate)
        THEN Finish("Ok")
        ELSE pc' = authenticate[k + 1] /\ result' = result

\* hook(), lines 77-95: check_project_exists, then the bypass or authenticate
hook ==
    /\ pc = "hook"
    /\ \E check \in ProjectChecks :
          IF check # "Ok" THEN Finish(check)
          ELSE IF env.allow_unauthorized_keys.some THEN Finish("Ok")
          ELSE pc' = authenticate[1] /\ result' = result
    /\ UNCHANGED <<env, updates, gates, key_fingerprint, idx>>
    /\ UNCHANGED nodeVars

\* authorize_ref_updates, lines 110-116
authorize_ref_updates ==
    /\ pc = "authorize_ref_updates"
    /\ gates' = Append(gates, "authorize_ref_updates")
    /\ LET fp == signer_fingerprint(env)
       IN  IF ~fp.some
           THEN Finish("Unauthorized") /\ UNCHANGED <<key_fingerprint, idx>>
           ELSE /\ key_fingerprint' = fp.val
                /\ idx' = 1
                /\ pc' = "authorize_loop"
                /\ result' = result
    /\ UNCHANGED <<env, updates>>
    /\ UNCHANGED nodeVars

\* one iteration of the loop of authorize_ref_updates, lines 118-135
authorize_loop ==
    /\ pc = "authorize_loop"
    /\ IF idx > Len(updates)
       THEN Proceed("authorize_ref_updates") /\ UNCHANGED idx
       ELSE LET r == authorize_ref(updates[idx], env.remote_user.val, key_fingerprint)
            IN  IF r # "Ok"
                THEN Finish(r) /\ UNCHANGED idx
                ELSE idx' = idx + 1 /\ UNCHANGED <<pc, result>>
    /\ UNCHANGED <<env, updates, gates, key_fingerprint>>
    /\ UNCHANGED nodeVars

\* the call of verify_certificate in authenticate
verify_certificate_step ==
    /\ pc = "verify_certificate"
    /\ gates' = Append(gates, "verify_certificate")
    /\ LET r == verify_certificate(env)
       IN  IF r # "Ok" THEN Finish(r) ELSE Proceed("verify_certificate")
    /\ UNCHANGED <<env, updates, key_fingerprint, idx>>
    /\ UNCHANGED nodeVars

\* the call of check_authorized_key in authenticate
check_authorized_key_step ==
    /\ pc = "check_authorized_key"
    /\ gates' = Append(gates, "check_authorized_key")
    /\ LET r == check_authorized_key(env)
       IN  IF r # "Ok" THEN Finish(r) ELSE Proceed("check_authorized_key")
    /\ UNCHANGED <<env, updates, key_fingerprint, idx>>
    /\ UNCHANGED nodeVars

Next ==
    \/ hook
    \/ authorize_ref_updates
    \/ authorize_loop
    \/ verify_certificate_step
    \/ check_authorized_key_step

Init == from_stdin /\ TrackerNotStarted /\ RunNotStarted /\ UpdateRefsNotStarted

Spec == Init /\ [][Next]_vars

\* check_authorized_key called on its own, on a PreReceive of any
\* environment
InitCheckKey ==
    /\ env \in ReceivePackEnv
    /\ updates = <<>>
    /\ pc = "check_authorized_key"
    /\ result = "none"
    /\ gates = <<>>
    /\ key_fingerprint = <<>>
    /\ idx = 0
    /\ TrackerNotStarted /\ RunNotStarted /\ UpdateRefsNotStarted

SpecCheckKey == InitCheckKey /\ [][check_authorized_key_step]_vars

\* authorize_ref_updates called on its own: any remote user, cert key and
\* batch, the variables it does not read being those of a plain push
InitAuthorize ==
    /\ env \in {e \in ReceivePackEnv :
                  /\ e.allow_unauthorized_keys = NoneBool
                  /\ e.cert_status = Some("G")
                  /\ e.cert_nonce_status = Some("OK")
                  /\ e.authorized_gpg_keys = None
                  /\ e.authorized_ssh_keys = None}
    /\ updates \in Batches
    /\ pc = "authorize_ref_updates"
    /\ result = "none"
    /\ gates = <<>>
    /\ key_fingerprint = <<>>
    /\ idx = 0
    /\ TrackerNotStarted /\ RunNotStarted /\ UpdateRefsNotStarted

NextAuthorize ==
    \/ authorize_ref_updates
    \/ authorize_loop

SpecAuthorize == InitAuthorize /\ [][NextAuthorize]_vars

-----------------------------------------------------------------------------
(* The tracker: track_projects and the producers of its work channel *)

\* mpsc::channel(256): the capacity of the work channel
WorkChannelCapacity == 256

\* project ids (Urn); 0 stands for "no id"
Urns == 1..MaxIds

\* the outcomes of handle.track_project(urn).await
TrackOutcomes == {"OkSome", "OkNone", "NotFound", "Timeout", "Failed"}

\* the hook's variables while only the org-node runs
HookNotStarted ==
    /\ env = [ allow_unauthorized_keys |-> NoneBool, remote_user |-> None,
               cert_key |-> None, cert_status |-> NoneStr,
               cert_nonce_status |-> NoneStr, authorized_gpg_keys |-> None,
               authorized_ssh_keys |-> None ]
    /\ updates = <<>>
    /\ pc = "idle"
    /\ result = "none"
    /\ gates = <<>>
    /\ key_fingerprint = <<>>
    /\ idx = 0

\* track_projects at its first iteration, lines 461-466: work is empty, the
\* channel is open and empty
track_projects ==
    /\ queue = <<>>
    /\ senders = TRUE
    /\ sent = 0
    /\ fused_done = FALSE
    /\ work = <<>>
    /\ urn = 0
    /\ tpc = "drain"
    /\ outstanding = [u \in Urns |-> 0]
    /\ avail = <<>>
    /\ calls = <<>>
    /\ dispatched = {}

\* a return of track_projects: its locals (work, the urn, the receiver with
\* what it still buffers) are dropped
Return ==
    /\ tpc' = "done"
    /\ work' = <<>>
    /\ urn' = 0
    /\ queue' = <<>>
    /\ avail' = <<>>

\* the match on the outcome, lines 510-531, losing the id on NotFound
requeue_timeout_only(w, u, outcome) ==
    IF outcome = "Timeout" THEN Append(w, u) ELSE w

\* the match on the outcome, lines 510-531, with push_front for push_back
requeue_push_front(w, u, outcome) ==
    IF outcome \in {"NotFound", "Timeout"} THEN <<u>> \o w ELSE w

\* the match on the outcome, lines 510-531: work after the call for u
requeue(w, u, outcome) ==
    IF outcome \in {"NotFound", "Timeout"} THEN Append(w, u) ELSE w

\* a producer's work.send(urn).await (process_anchors, process_urns):
\* enqueues while the receiver lives and the channel has room
send(u) ==
    /\ senders
    /\ tpc # "done"
    /\ sent < MaxSends
    /\ Len(queue) < WorkChannelCapacity
    /\ queue' = Append(queue, u)
    /\ sent' = sent + 1
    /\ UNCHANGED <<senders, fused_done, work, urn, tpc, outstanding, avail>>
    /\ UNCHANGED hookVars

\* the last Sender is dropped: the channel is closed, what it buffers stays
\* readable
close ==
    /\ senders
    /\ senders' = FALSE
    /\ UNCHANGED <<queue, sent, fused_done, work, urn, tpc, outstanding, avail>>
    /\ UNCHANGED hookVars

\* the drain loop breaking after the first id it moved
drain_break_after_first ==
    /\ tpc = "drain"
    /\ IF fused_done
       THEN Return /\ UNCHANGED <<fused_done, outstanding>>
       ELSE IF queue # <<>>
       THEN /\ work' = Append(work, Head(queue))
            /\ queue' = Tail(queue)
            /\ outstanding' = [outstanding EXCEPT ![Head(queue)] = @ + 1]
            /\ tpc' = "select"
            /\ UNCHANGED <<fused_done, urn, avail>>
       ELSE IF ~senders
       THEN Return /\ fused_done' = TRUE /\ UNCHANGED outstanding
       ELSE /\ tpc' = "select"
            /\ UNCHANGED <<queue, fused_done, work, urn, outstanding, avail>>
    /\ UNCHANGED <<senders, sent>>
    /\ UNCHANGED hookVars

\* the drain loop returning when the channel is empty, closed or not
drain_return_on_empty ==
    /\ tpc = "drain"
    /\ IF fused_done
       THEN Return /\ UNCHANGED <<fused_done, outstanding>>
       ELSE IF queue # <<>>
       THEN /\ work' = Append(work, Head(queue))
            /\ queue' = Tail(queue)
            /\ outstanding' = [outstanding EXCEPT ![Head(queue)] = @ + 1]
            /\ UNCHANGED <<fused_done, urn, tpc, avail>>
       ELSE Return /\ UNCHANGED <<fused_done, outstanding>>
    /\ UNCHANGED <<senders, sent>>
    /\ UNCHANGED hookVars

\* one pass of the select! of the drain loop, lines 470-493
drain ==
    /\ tpc = "drain"
    /\ IF fused_done
       THEN \* complete
            Return /\ UNCHANGED <<fused_done, outstanding>>
       ELSE IF queue # <<>>
       THEN \* Some(urn)
            /\ work' = Append(work, Head(queue))
            /\ queue' = Tail(queue)
            /\ outstanding' = [outstanding EXCEPT ![Head(queue)] = @ + 1]
            /\ UNCHANGED <<fused_done, urn, tpc, avail>>
       ELSE IF ~senders
       THEN \* None
            Return /\ fused_done' = TRUE /\ UNCHANGED outstanding
       ELSE \* default
            /\ tpc' = "select"
            /\ UNCHANGED <<queue, fused_done, work, urn, outstanding, avail>>
    /\ UNCHANGED <<senders, sent>>
    /\ UNCHANGED hookVars

\* lines 498-506 with pop_back for pop_front
select_pop_back ==
    /\ tpc = "select"
    /\ IF work # <<>>
       THEN /\ urn' = work[Len(work)]
            /\ work' = SubSeq(work, 1, Len(work) - 1)
            /\ tpc' = "track"
            /\ avail' = <<>>
            /\ UNCHANGED <<queue, fused_done, outstanding>>
       ELSE /\ queue # <<>> \/ ~senders
            /\ IF queue # <<>>
               THEN /\ urn' = Head(queue)
                    /\ queue' = Tail(queue)
                    /\ outstanding' = [outstanding EXCEPT ![Head(queue)] = @ + 1]
                    /\ tpc' = "track"
                    /\ avail' = <<>>
                    /\ UNCHANGED <<fused_done, work>>
               ELSE /\ fused_done' = TRUE
                    /\ tpc' = "drain"
                    /\ avail' = queue
                    /\ UNCHANGED <<queue, work, urn, outstanding>>
    /\ UNCHANGED <<senders, sent>>
    /\ UNCHANGED hookVars

\* lines 498-506: pop the front of work, or wait for the channel
select ==
    /\ tpc = "select"
    /\ IF work # <<>>
       THEN /\ urn' = Head(work)
            /\ work' = Tail(work)
            /\ tpc' = "track"
            /\ avail' = <<>>
            /\ UNCHANGED <<queue, fused_done, outstanding>>
       ELSE /\ queue # <<>> \/ ~senders
            /\ IF queue # <<>>
               THEN /\ urn' = Head(queue)
                    /\ queue' = Tail(queue)
                    /\ outstanding' = [outstanding EXCEPT ![Head(queue)] = @ + 1]
                    /\ tpc' = "track"
                    /\ avail' = <<>>
                    /\ UNCHANGED <<fused_done, work>>
               ELSE \* None: continue
                    /\ fused_done' = TRUE
                    /\ tpc' = "drain"
                    /\ avail' = queue
                    /\ UNCHANGED <<queue, work, urn, outstanding>>
    /\ UNCHANGED <<senders, sent>>
    /\ UNCHANGED hookVars

\* lines 510-531: the call of handle.track_project and the match on its outcome
track_project(outcome) ==
    /\ tpc = "track"
    /\ outcome \in TrackOutcomes
    /\ IF outcome = "Failed"
       THEN Return /\ UNCHANGED outstanding
       ELSE /\ work' = requeue(work, urn, outcome)
            /\ outstanding' =
                  IF outcome \in {"OkSome", "OkNone"}
                  THEN [outstanding EXCEPT ![urn] = @ - 1]
                  ELSE outstanding
            /\ urn' = 0
            /\ tpc' = "drain"
            /\ avail' = queue
            /\ UNCHANGED queue
    /\ UNCHANGED <<senders, sent, fused_done>>
    /\ UNCHANGED hookVars

\* the observer's record of a call: its outcome, while the record has room
called(outcome) ==
    calls' = IF Len(calls) < MaxCalls THEN Append(calls, outcome) ELSE calls

InitTracker ==
    HookNotStarted /\ track_projects /\ RunNotStarted /\ UpdateRefsNotStarted

\* track_projects and the producers of its channel, the calls being recorded
NextTracker ==
    \/ \E u \in Urns : send(u) /\ UNCHANGED <<observers, runVars, refsVars>>
    \/ close /\ UNCHANGED <<observers, runVars, refsVars>>
    \/ drain /\ UNCHANGED <<observers, runVars, refsVars>>
    \/ select /\ UNCHANGED <<observers, runVars, refsVars>>
    \/ \E outcome \in TrackOutcomes :
          /\ track_project(outcome)
          /\ called(outcome)
          /\ UNCHANGED <<dispatched, runVars, refsVars>>

SpecTracker == InitTracker /\ [][NextTracker]_vars

\* the steps of track_projects, nothing being recorded
tracker_drain == drain /\ UNCHANGED <<observers, runVars, refsVars>>

tracker_select == select /\ UNCHANGED <<observers, runVars, refsVars>>

tracker_track_project ==
    \E outcome \in TrackOutcomes :
        track_project(outcome) /\ UNCHANGED <<observers, runVars, refsVars>>

NextTrackerFair ==
    \/ \E u \in Urns : send(u) /\ UNCHANGED <<observers, runVars, refsVars>>
    \/ close /\ UNCHANGED <<observers, runVars, refsVars>>
    \/ tracker_drain
    \/ tracker_select
    \/ tracker_track_project

\* the tracker as a spawned task that the runtime keeps polling, each call of
\* handle.track_project returning: no step of track_projects that can be
\* taken is put off forever
FairTracker ==
    /\ WF_vars(tracker_drain)
    /\ WF_vars(tracker_select)
    /\ WF_vars(tracker_track_project)

SpecTrackerFair == InitTracker /\ [][NextTrackerFair]_vars /\ FairTracker

-----------------------------------------------------------------------------
(* Project::urn: from the anchor's object id to the project id *)

\* Option<u8>::None
NoneInt == [some |-> FALSE, val |-> 0]

HexDigits ==
    << "0","1","2","3","4","5","6","7","8","9","a","b","c","d","e","f" >>

HexUpper == << "A","B","C","D","E","F" >>

\* char::to_digit(16): Some(value) of a hexadecimal digit of either case
to_digit(c) ==
    IF \E k \in 1..Len(HexDigits) : HexDigits[k] = c
    THEN Some((CHOOSE k \in 1..Len(HexDigits) : HexDigits[k] = c) - 1)
    ELSE IF \E k \in 1..Len(HexUpper) : HexUpper[k] = c
    THEN Some((CHOOSE k \in 1..Len(HexUpper) : HexUpper[k] = c) + 9)
    ELSE NoneInt

\* u8::from_str_radix(src, 16) for the two-character slices Project::urn
\* hands it: an optional leading '+', then hexadecimal digits
from_str_radix(src) ==
    LET digits == IF src[1] = "+" THEN Tail(src) ELSE src
    IN  IF \E k \in 1..Len(digits) : ~to_digit(digits[k]).some
        THEN NoneInt
        ELSE IF Len(digits) = 1 THEN Some(to_digit(digits[1]).val)
        ELSE Some(to_digit(digits[1]).val * 16 + to_digit(digits[2]).val)

\* lines 98-101: the slices hex[i..i + 2] for i = 0, 2, .. parsed in order
\* and collected into a Result; a slice that runs past the end of hex
\* panics, an unparsable slice ends the collection with its error
RECURSIVE collect_bytes(_)
collect_bytes(hex) ==
    IF Len(hex) = 0 THEN [tag |-> "Ok", bytes |-> <<>>]
    ELSE IF Len(hex) = 1 THEN [tag |-> "Panic", bytes |-> <<>>]
    ELSE LET byte == from_str_radix(SubSeq(hex, 1, 2))
             rest == collect_bytes(SubSeq(hex, 3, Len(hex)))
         IN  IF ~byte.some THEN [tag |-> "Int", bytes |-> <<>>]
             ELSE IF rest.tag # "Ok" THEN rest
             ELSE [tag |-> "Ok", bytes |-> <<byte.val>> \o rest.bytes]

\* Project::urn without the test of line 104
Project_urn_any_length(object_id) ==
    IF ~starts_with(object_id, <<"0", "x">>)
    THEN [tag |-> "Invalid", id |-> <<>>]
    ELSE LET hex   == SubSeq(object_id, 3, Len(object_id))
             bytes == collect_bytes(hex)
         IN  IF bytes.tag # "Ok" THEN [tag |-> bytes.tag, id |-> <<>>]
             ELSE IF Len(bytes.bytes) < 20 THEN [tag |-> "Invalid", id |-> <<>>]
             ELSE [tag |-> "Ok",
                   id  |-> SubSeq(bytes.bytes, Len(bytes.bytes) - 20 + 1,
                                  Len(bytes.bytes))]

\* Project::urn, lines 89-112: Ok with the 20-byte id, Err(Invalid),
\* Err(Int), or a panic
Project_urn(object_id) ==
    IF ~starts_with(object_id, <<"0", "x">>)
    THEN [tag |-> "Invalid", id |-> <<>>]
    ELSE LET hex   == SubSeq(object_id, 3, Len(object_id))
             bytes == collect_bytes(hex)
         IN  IF bytes.tag # "Ok" THEN [tag |-> bytes.tag, id |-> <<>>]
             ELSE IF Len(bytes.bytes) # 32 THEN [tag |-> "Invalid", id |-> <<>>]
             ELSE [tag |-> "Ok",
                   id  |-> SubSeq(bytes.bytes, Len(bytes.bytes) - 20 + 1,
                                  Len(bytes.bytes))]

-----------------------------------------------------------------------------
(* Anchors of the model *)

\* n copies of the text t
RECURSIVE Repeat(_, _)
Repeat(t, n) == IF n = 0 THEN <<>> ELSE t \o Repeat(t, n - 1)

\* Oid of the project the model calls u: 19 zero bytes, then u
Oid(u) == [k \in 1..20 |-> IF k = 20 THEN u ELSE 0]

\* the Urn { id, path: None } of a 20-byte id, by the name the model gives it
Urn(id) == CHOOSE u \in Urns : Oid(u) = id

\* a bytes32 anchor of project u as the indexer prints it: 0x, twelve bytes
\* aB, nineteen bytes 00, and the byte u
AnchorOf(u) ==
    <<"0", "x">> \o Repeat(<<"a", "B">>, 12) \o Repeat(<<"0", "0">>, 19)
    \o <<"0", HexDigits[u + 1]>>

\* "0xdead": two bytes
AnchorDead == <<"0", "x", "d", "e", "a", "d">>

\* "0x": no byte
AnchorEmpty == <<"0", "x">>

\* an anchor of project 1 without the 0x prefix
AnchorNoPrefix == SubSeq(AnchorOf(1), 3, Len(AnchorOf(1)))

\* "0xabc": an odd number of hexadecimal digits
AnchorOdd == <<"0", "x", "a", "b", "c">>

\* 65 characters: an anchor of project 1 without its last digit
AnchorOdd65 == SubSeq(AnchorOf(1), 1, Len(AnchorOf(1)) - 1)

\* "0xzza": an unparsable pair before the odd tail
AnchorBadThenOdd == <<"0", "x", "z", "z", "a">>

\* 66 characters with a pair that is no hexadecimal number
AnchorNonHex == <<"0", "x", "z", "z">> \o SubSeq(AnchorOf(1), 5, Len(AnchorOf(1)))

\* 66 characters with the pair "+7" among the hexadecimal digits
AnchorPlus == <<"0", "x", "+", "7">> \o SubSeq(AnchorOf(2), 5, Len(AnchorOf(2)))

\* 70 characters: 34 bytes, the last 20 being the id of project 2
AnchorLong == <<"0", "x", "0", "0", "0", "0">> \o SubSeq(AnchorOf(2), 3, Len(AnchorOf(2)))

ObjectIds ==
    { AnchorOf(1), AnchorOf(2), AnchorDead, AnchorEmpty, AnchorNoPrefix,
      AnchorOdd, AnchorOdd65, AnchorBadThenOdd, AnchorNonHex, AnchorPlus,
      AnchorLong }

\* project.urn() for every object id of the model, computed once
project_urn == [object_id \in ObjectIds |-> Project_urn(object_id)]

\* the object ids of the projects of one response of the indexer
ProjectLists == UNION {[1..n -> ObjectIds] : n \in 0..MaxProjects}

-----------------------------------------------------------------------------
(* run: the bootstrap, the spawned tasks and the join *)

\* the tasks run spawns besides track_task, whose state is tpc
TaskNames ==
    {"web_server", "client_task", "event_task", "update_refs_task", "query_task"}

\* the responses of the indexer to the bootstrap query
BootstrapResponses ==
    {<<>>, <<AnchorOf(1), AnchorDead>>, <<AnchorOdd>>, <<AnchorLong>>}

\* the responses of the indexer to the query that follows an event
EventResponses == {<<AnchorOf(2)>>, <<AnchorPlus>>, <<AnchorOdd>>}

\* options.urns
OperatorUrns == {<<>>, <<1>>}

\* the process runs: run has not returned or panicked
Alive == rpc \in {"query", "process_anchors", "process_urns", "spawn", "select_all"}

\* a task has completed: its JoinHandle is ready
Completed(t) == IF t = "track_task" THEN tpc = "done" ELSE tasks[t] = "done"

\* run spawning the subscriber and query_projects with the first tasks
run_subscriber_first ==
    /\ rpc = "query"
    /\ projects = <<>>
    /\ pidx = 0
    /\ pa = "idle"
    /\ urns \in OperatorUrns
    /\ tasks = [t \in TaskNames |->
                  IF t = "update_refs_task" THEN "none" ELSE "running"]
    /\ events = 0
    /\ logs = 0
    /\ sendlog = <<>>

\* run at line 237: web_server, client_task and track_task are spawned, the
\* channels are open and empty
run ==
    /\ rpc = "query"
    /\ projects = <<>>
    /\ pidx = 0
    /\ pa = "idle"
    /\ urns \in OperatorUrns
    /\ tasks = [t \in TaskNames |->
                  IF t \in {"web_server", "client_task"} THEN "running" ELSE "none"]
    /\ events = 0
    /\ logs = 0
    /\ sendlog = <<>>

\* line 237: query(..)? for the anchors that exist already
bootstrap_query ==
    /\ rpc = "query"
    /\ \/ /\ rpc' = "failed"
          /\ UNCHANGED <<projects, pidx, pa>>
       \/ \E response \in BootstrapResponses :
             /\ projects' = response
             /\ pidx' = 1
             /\ pa' = "bootstrap"
             /\ rpc' = "process_anchors"
    /\ UNCHANGED <<urns, tasks, events, logs, sendlog>>
    /\ UNCHANGED <<hookVars, trackVars, observers, refsVars>>

\* the end of a call of process_anchors, seen from its caller: run (line
\* 238) goes on, returns the error or panics; query_projects (282-285) goes
\* back to its loop or returns, and a panic ends its task, dropping `work`;
\* the Vec of projects is consumed
pa_return(res) ==
    /\ pa' = "idle"
    /\ projects' = <<>>
    /\ pidx' = 0
    /\ IF pa = "bootstrap"
       THEN /\ rpc' = CASE res = "Ok" -> "process_urns"
                        [] res = "Err" -> "failed"
                        [] OTHER -> "panicked"
            /\ UNCHANGED <<tasks, senders>>
       ELSE /\ tasks' = IF res = "Ok" THEN tasks
                         ELSE [tasks EXCEPT !["query_task"] = "done"]
            /\ senders' = (res = "Ok")
            /\ UNCHANGED rpc

\* process_anchors, lines 310-331: one iteration of its loop, or its return
process_anchors ==
    /\ Alive
    /\ pa # "idle"
    /\ IF pidx > Len(projects)
       THEN pa_return("Ok") /\ UNCHANGED <<queue, sendlog>>
       ELSE LET project == project_urn[projects[pidx]]
            IN  IF project.tag = "Panic"
                THEN pa_return("Panic") /\ UNCHANGED <<queue, sendlog>>
                ELSE IF project.tag # "Ok"
                THEN \* continue
                     /\ pidx' = pidx + 1
                     /\ UNCHANGED <<pa, projects, rpc, tasks, senders, queue, sendlog>>
                ELSE IF tpc = "done"
                THEN \* work.send(urn).await? with the receiver dropped
                     pa_return("Err") /\ UNCHANGED <<queue, sendlog>>
                ELSE /\ Len(queue) < WorkChannelCapacity
                     /\ queue' = Append(queue, Urn(project.id))
                     /\ sendlog' = Append(sendlog, <<pa, Urn(project.id)>>)
                     /\ pidx' = pidx + 1
                     /\ UNCHANGED <<pa, projects, rpc, tasks, senders>>
    /\ UNCHANGED <<urns, events, logs>>
    /\ UNCHANGED <<sent, fused_done, work, urn, tpc, outstanding, avail>>
    /\ UNCHANGED <<hookVars, observers, refsVars>>

\* process_urns, lines 297-308, called at line 239: one iteration of its
\* loop, or its return
process_urns ==
    /\ rpc = "process_urns"
    /\ IF urns = <<>>
       THEN rpc' = "spawn" /\ UNCHANGED <<urns, queue, sendlog>>
       ELSE IF tpc = "done"
       THEN rpc' = "failed" /\ UNCHANGED <<urns, queue, sendlog>>
       ELSE /\ Len(queue) < WorkChannelCapacity
            /\ queue' = Append(queue, Head(urns))
            /\ sendlog' = Append(sendlog, <<"urns", Head(urns)>>)
            /\ urns' = Tail(urns)
            /\ UNCHANGED rpc
    /\ UNCHANGED <<projects, pidx, pa, tasks, events, logs>>
    /\ UNCHANGED <<senders, sent, fused_done, work, urn, tpc, outstanding, avail>>
    /\ UNCHANGED <<hookVars, observers, refsVars>>

\* lines 242-254: event_task, update_refs_task and query_task are spawned
spawn ==
    /\ rpc = "spawn"
    /\ tasks' = [t \in TaskNames |->
                   IF t \in {"event_task", "update_refs_task", "query_task"}
                   THEN "running" ELSE tasks[t]]
    /\ rpc' = "select_all"
    /\ UNCHANGED <<projects, pidx, pa, urns, events, logs, sendlog>>
    /\ UNCHANGED <<hookVars, trackVars, observers, refsVars>>

\* select_all waiting for every task instead of the first
select_all_join_all ==
    /\ rpc = "select_all"
    /\ \A t \in TaskNames \cup {"track_task"} : Completed(t)
    /\ rpc' = "returned"
    /\ UNCHANGED <<projects, pidx, pa, urns, tasks, events, logs, sendlog>>
    /\ UNCHANGED <<hookVars, trackVars, observers, refsVars>>

\* lines 265-270: block_on(select_all(tasks)) is ready when a task has
\* completed; run logs and returns
select_all ==
    /\ rpc = "select_all"
    /\ \E t \in TaskNames \cup {"track_task"} : Completed(t)
    /\ rpc' = "returned"
    /\ UNCHANGED <<projects, pidx, pa, urns, tasks, events, logs, sendlog>>
    /\ UNCHANGED <<hookVars, trackVars, observers, refsVars>>

\* webserver::serve or client.run ends (both are outside this file)
task_ends(t) ==
    /\ Alive
    /\ t \in {"web_server", "client_task"}
    /\ tasks[t] = "running"
    /\ tasks' = [tasks EXCEPT ![t] = "done"]
    /\ UNCHANGED <<rpc, projects, pidx, pa, urns, events, logs, sendlog>>
    /\ UNCHANGED <<hookVars, trackVars, observers, refsVars>>

\* subscribe_events, lines 375-405: the connection or the subscription
\* fails, the stream ends, or an event is sent to query_projects; a send
\* to a dropped receiver ends the task
subscribe_events ==
    /\ Alive
    /\ tasks["event_task"] = "running"
    /\ \/ /\ tasks' = [tasks EXCEPT !["event_task"] = "done"]
          /\ UNCHANGED <<events, logs>>
       \/ /\ logs < MaxEvents
          /\ IF tasks["query_task"] = "done"
             THEN /\ tasks' = [tasks EXCEPT !["event_task"] = "done"]
                  /\ UNCHANGED <<events, logs>>
             ELSE /\ events' = events + 1
                  /\ logs' = logs + 1
                  /\ UNCHANGED tasks
    /\ UNCHANGED <<rpc, projects, pidx, pa, urns, sendlog>>
    /\ UNCHANGED <<hookVars, trackVars, observers, refsVars>>

\* query_projects, lines 279-294: events.recv(), then the query and, on a
\* response, process_anchors; the sender being dropped ends the loop and
\* the task, which drops `work`
query_projects ==
    /\ Alive
    /\ tasks["query_task"] = "running"
    /\ pa = "idle"
    /\ IF events > 0
       THEN /\ events' = events - 1
            /\ \/ UNCHANGED <<projects, pidx, pa>>
               \/ \E response \in EventResponses :
                     /\ projects' = response
                     /\ pidx' = 1
                     /\ pa' = "query"
            /\ UNCHANGED <<tasks, senders>>
       ELSE /\ tasks["event_task"] = "done"
            /\ tasks' = [tasks EXCEPT !["query_task"] = "done"]
            /\ senders' = FALSE
            /\ UNCHANGED <<events, projects, pidx, pa>>
    /\ UNCHANGED <<rpc, urns, logs, sendlog>>
    /\ UNCHANGED <<queue, sent, fused_done, work, urn, tpc, outstanding, avail>>
    /\ UNCHANGED <<hookVars, observers, refsVars>>

\* update_refs, lines 413-454, as a task of run: UnixListener::bind fails
\* and the task ends, or it listens (the loop over incoming() does not end)
update_refs_bind ==
    /\ Alive
    /\ tasks["update_refs_task"] = "running"
    /\ \E bound \in BOOLEAN :
          tasks' = [tasks EXCEPT !["update_refs_task"] =
                       IF bound THEN "listening" ELSE "done"]
    /\ UNCHANGED <<rpc, projects, pidx, pa, urns, events, logs, sendlog>>
    /\ UNCHANGED <<hookVars, trackVars, observers, refsVars>>

\* a step of track_task while the process runs
track_task ==
    /\ Alive
    /\ \/ drain /\ UNCHANGED dispatched
       \/ select /\ dispatched' = IF tpc' = "track"
                                   THEN dispatched \cup {urn'} ELSE dispatched
       \/ \E outcome \in TrackOutcomes :
             track_project(outcome) /\ UNCHANGED dispatched
    /\ UNCHANGED <<calls, runVars, refsVars>>

InitRun == HookNotStarted /\ track_projects /\ run /\ UpdateRefsNotStarted

NextRun ==
    \/ bootstrap_query
    \/ process_anchors
    \/ process_urns
    \/ spawn
    \/ select_all
    \/ \E t \in {"web_server", "client_task"} : task_ends(t)
    \/ subscribe_events
    \/ query_projects
    \/ update_refs_bind
    \/ track_task

SpecRun == InitRun /\ [][NextRun]_vars

\* the thread of run is not starved: block_on drives lines 237-270, and the
\* runtime polls the query task that runs process_anchors
FairRun ==
    /\ WF_vars(bootstrap_query)
    /\ WF_vars(process_anchors)
    /\ WF_vars(process_urns)
    /\ WF_vars(spawn)
    /\ WF_vars(select_all)

SpecRunFair == InitRun /\ [][NextRun]_vars /\ FairRun

\* process_anchors alone: run at line 238 with a response of the indexer
InitAnchors ==
    /\ HookNotStarted /\ track_projects /\ UpdateRefsNotStarted
    /\ rpc = "process_anchors"
    /\ projects \in ProjectLists
    /\ pidx = 1
    /\ pa = "bootstrap"
    /\ urns = <<>>
    /\ tasks = [t \in TaskNames |->
                  IF t \in {"web_server", "client_task"} THEN "running" ELSE "none"]
    /\ events = 0
    /\ logs = 0
    /\ sendlog = <<>>

SpecAnchors == InitAnchors /\ [][process_anchors]_vars

-----------------------------------------------------------------------------
(* update_refs: the lines of the local socket *)

\* the text of the id of project u, as the git-server writes it on a line
IdText(u) == <<"h", "n", "r", "k", HexDigits[u + 1]>>

\* the lines a connection can carry: ids, the empty line, another text
LineTexts == {IdText(u) : u \in Urns} \cup {<<>>, <<"r", "e", "f", "s">>}

\* Urn::try_from_id(line), line 425: Some(urn) for the text of an id
try_from_id(text) ==
    IF \E u \in Urns : IdText(u) = text
    THEN Some(CHOOSE u \in Urns : IdText(u) = text)
    ELSE NoneInt

\* update_refs at line 420: the listener is bound, nothing is accepted yet
InitUpdateRefs ==
    /\ HookNotStarted /\ TrackerNotStarted /\ RunNotStarted
    /\ upc = "incoming"
    /\ lines = 0
    /\ line = <<>>
    /\ conns = 0
    /\ ws = [u \in Urns |-> 0]
    /\ ws_open = TRUE
    /\ rpcs = [u \in Urns |-> 0]

\* lines 420-423, 445-447: the next incoming connection, or an error that
\* is logged
listener_incoming ==
    /\ upc = "incoming"
    /\ conns < MaxConns
    /\ conns' = conns + 1
    /\ \E opened \in BOOLEAN :
          upc' = IF opened THEN "lines" ELSE "incoming"
    /\ lines' = 0
    /\ UNCHANGED <<line, ws, ws_open, rpcs>>
    /\ UNCHANGED <<hookVars, trackVars, observers, runVars>>

\* lines 424-425 leaving the connection at the first line that is no id
stream_lines_break_on_invalid ==
    /\ upc = "lines"
    /\ \/ /\ upc' = "incoming"
          /\ line' = <<>>
          /\ UNCHANGED lines
       \/ /\ lines < MaxLines
          /\ lines' = lines + 1
          /\ \E text \in LineTexts :
                /\ line' = text
                /\ upc' = IF try_from_id(text).some THEN "update_refs" ELSE "incoming"
    /\ UNCHANGED <<conns, ws, ws_open, rpcs>>
    /\ UNCHANGED <<hookVars, trackVars, observers, runVars>>

\* lines 424-425: the next line of the connection, or its end; a line that
\* could not be read (an Err item, dropped by flatten) or that is no id is
\* passed over
stream_lines ==
    /\ upc = "lines"
    /\ \/ /\ upc' = "incoming"
          /\ line' = <<>>
          /\ UNCHANGED lines
       \/ /\ lines < MaxLines
          /\ lines' = lines + 1
          /\ line' = <<>>
          /\ upc' = "lines"
       \/ /\ lines < MaxLines
          /\ lines' = lines + 1
          /\ \E text \in LineTexts :
                /\ line' = text
                /\ upc' = IF try_from_id(text).some THEN "update_refs" ELSE "lines"
    /\ UNCHANGED <<conns, ws, ws_open, rpcs>>
    /\ UNCHANGED <<hookVars, trackVars, observers, runVars>>

\* lines 426-441 publishing the event whatever the outcome of the call
handle_update_refs_notify_always(ok) ==
    /\ upc = "update_refs"
    /\ LET u == try_from_id(line).val
       IN  /\ rpcs' = IF ok THEN [rpcs EXCEPT ![u] = @ + 1] ELSE rpcs
           /\ ws' = IF ws_open THEN [ws EXCEPT ![u] = @ + 1] ELSE ws
    /\ upc' = "lines"
    /\ UNCHANGED <<lines, line, conns, ws_open>>
    /\ UNCHANGED <<hookVars, trackVars, observers, runVars>>

\* lines 426-441: handle.update_refs(urn).await completes; on Ok the event
\* is sent to the dashboard channel, which fails when the receiver is gone;
\* every error is logged and the loop goes on
handle_update_refs(ok) ==
    /\ upc = "update_refs"
    /\ LET u == try_from_id(line).val
       IN  /\ rpcs' = IF ok THEN [rpcs EXCEPT ![u] = @ + 1] ELSE rpcs
           /\ ws' = IF ok /\ ws_open THEN [ws EXCEPT ![u] = @ + 1] ELSE ws
    /\ upc' = "lines"
    /\ UNCHANGED <<lines, line, conns, ws_open>>
    /\ UNCHANGED <<hookVars, trackVars, observers, runVars>>

\* the receiver of the dashboard channel is dropped (the web server ends)
ws_rx_dropped ==
    /\ ws_open
    /\ ws_open' = FALSE
    /\ UNCHANGED <<upc, lines, line, conns, ws, rpcs>>
    /\ UNCHANGED <<hookVars, trackVars, observers, runVars>>

NextUpdateRefs ==
    \/ listener_incoming
    \/ stream_lines
    \/ \E ok \in BOOLEAN : handle_update_refs(ok)
    \/ ws_rx_dropped

SpecUpdateRefs == InitUpdateRefs /\ [][NextUpdateRefs]_vars

-----------------------------------------------------------------------------
(* Properties of the pre-receive hook, checked under Spec *)

Range(f) == {f[k] : k \in DOMAIN f}

Done == pc = "done"

Accepted == pc = "done" /\ result = "Ok"

\* the refname is refs/remotes/<peer>/<tail> and the SSH fingerprint of
\* <peer> is the base64-decoded cert key without its "SHA256:" prefix
RefOwnedBySigner(refname, cert_key) ==
    LET suffix   == strip_prefix(refname, RefsRemotes)
        parts    == split_once(suffix.val, "/")
        peer     == from_default_encoding(parts.val[1])
        stripped == strip_prefix(cert_key.val, Sha256Prefix)
        decoded  == base64_decode(stripped.val)
    IN  /\ suffix.some /\ parts.some /\ peer.some
        /\ cert_key.some /\ stripped.some /\ decoded.some
        /\ to_ssh_fingerprint(peer.val) = decoded.val

\* the refname is refs/remotes/<peer>/<tail> with <peer> a peer id
WellFormedRef(refname) ==
    LET suffix == strip_prefix(refname, RefsRemotes)
        parts  == split_once(suffix.val, "/")
    IN  suffix.some /\ parts.some /\ from_default_encoding(parts.val[1]).some

\* the keys of a comma-separated option, none when it is unset
KeySet(option) ==
    IF option.some
    THEN {split(option.val, ",")[k] : k \in 1..Len(split(option.val, ","))}
    ELSE {}

\* the signer's key is in one of the authorized lists
SignerListed ==
    /\ env.cert_key.some
    /\ env.cert_key.val \in KeySet(env.authorized_ssh_keys) \cup KeySet(env.authorized_gpg_keys)

\* C1: whenever the hook returns success, every ref update of the batch is
\* refs/remotes/<peer>/<tail> with the fingerprint of <peer> equal to the
\* decoded cert key, whatever allow_unauthorized_keys is.
C1_AcceptedRefsBelongToSigner ==
    Accepted => \A k \in 1..Len(updates) : RefOwnedBySigner(updates[k], env.cert_key)

\* C2: with allow_unauthorized_keys set, a push with a ref whose peer does
\* not match the signer's fingerprint is still rejected.
C2_IdentityGateKeptWhenKeysAllowed ==
    ( /\ Done
      /\ env.allow_unauthorized_keys = Some(TRUE)
      /\ \E k \in 1..Len(updates) : ~RefOwnedBySigner(updates[k], env.cert_key) )
    => result # "Ok"

\* C3: the hook succeeds only if GIT_PUSH_CERT_STATUS is G. Stated for the
\* pushes that go through authenticate (allow_unauthorized_keys unset), where
\* the certificate gates are not bypassed.
C3_AcceptedOnlyWithGoodSignature ==
    (Accepted /\ ~env.allow_unauthorized_keys.some) => env.cert_status = Some("G")

\* C4: verify_certificate succeeds exactly when the nonce status is OK; for
\* every other status authenticate ends with FailedCertificateVerification
\* and check_authorized_key is not evaluated.
C4_NonceGate ==
    "verify_certificate" \in Range(gates) =>
        IF env.cert_nonce_status = Some("OK")
        THEN /\ pc \in {"check_authorized_key", "done"}
             /\ result # "FailedCertificateVerification"
        ELSE /\ pc = "done"
             /\ result = "FailedCertificateVerification"
             /\ "check_authorized_key" \notin Range(gates)

\* C4 witness: a non-empty batch passed authorize_ref_updates and was then
\* rejected by the nonce gate for SLOP
C4_Witness ==
    /\ Done
    /\ Len(updates) > 0
    /\ env.cert_nonce_status = Some("SLOP")
    /\ gates = <<"authorize_ref_updates", "verify_certificate">>
    /\ result = "FailedCertificateVerification"

\* C5 as stated: with allow_unauthorized_keys unset, a signer key outside
\* the comma-split authorized set (empty when the option is unset) is
\* rejected with Unauthorized by the authorized-key gate.
C5_UnlistedKeyRejected ==
    ( /\ Done
      /\ ~env.allow_unauthorized_keys.some
      /\ "check_authorized_key" \in Range(gates)
      /\ ~SignerListed )
    => result = "Unauthorized"

\* C5 amended: with allow_unauthorized_keys unset and at least one of the
\* authorized lists (GPG, SSH) configured, a signer key outside the union of
\* the comma-split lists never has its push accepted, and the authorized-key
\* gate, when reached, rejects it with Unauthorized.
C5_UnlistedKeyRejectedWhenListConfigured ==
    ( /\ Done
      /\ ~env.allow_unauthorized_keys.some
      /\ (env.authorized_gpg_keys.some \/ env.authorized_ssh_keys.some)
      /\ ~SignerListed )
    => /\ result # "Ok"
       /\ "check_authorized_key" \in Range(gates) => result = "Unauthorized"

\* C5 witness: the authorized-key gate rejected a signer whose key is not in
\* the configured SSH list, after the other gates had passed
C5_Witness ==
    /\ Done
    /\ ~env.allow_unauthorized_keys.some
    /\ env.authorized_ssh_keys.some
    /\ ~SignerListed
    /\ Len(updates) > 0
    /\ gates = authenticate
    /\ result = "Unauthorized"

\* C6: one verdict for the batch: success is returned only when every
\* update of the batch passes the per-ref gate of authorize_ref_updates.
C6_SuccessOnlyIfEveryUpdatePasses ==
    Accepted =>
        \A k \in 1..Len(updates) :
            /\ env.remote_user.some
            /\ signer_fingerprint(env).some
            /\ authorize_ref(updates[k], env.remote_user.val,
                             signer_fingerprint(env).val) = "Ok"

C8_InvalidRefPushed ==
    ( /\ Done
      /\ gates = <<"authorize_ref_updates">>
      /\ idx \in 1..Len(updates)
      /\ ~WellFormedRef(updates[idx]) )
    => result = "InvalidRefPushed"

\* C9: with no ref update, a good certificate status, nonce OK, a listed
\* signer key and a repository that opens, the hook succeeds; with no ref
\* update and a nonce status other than OK it rejects.
C9_EmptyBatch ==
    (Done /\ updates = <<>>) =>
        /\ ( /\ env.cert_status = Some("G")
             /\ env.cert_nonce_status = Some("OK")
             /\ SignerListed
             /\ result \notin {"Git", "NamespaceNotFound"} )
           => result = "Ok"
        /\ env.cert_nonce_status # Some("OK") => result # "Ok"

-----------------------------------------------------------------------------
(* Properties of the tracker, checked under SpecTracker *)

\* number of occurrences of u in the sequence w
Count(w, u) == Cardinality({k \in 1..Len(w) : w[k] = u})

\* every id received without an Ok outcome yet is the id being dispatched
\* or is in work, counted with multiplicity
NoIdLost ==
    \A u \in Urns : outstanding[u] = Count(work, u) + (IF urn = u THEN 1 ELSE 0)

\* C10 as stated: in every reachable state of track_projects, also after the
\* channel was closed, no received id without an Ok outcome is lost.
C10_NeverLosesProjectId == NoIdLost

\* C10 amended: while track_projects has not returned, every received id
\* without an Ok outcome is the id being dispatched or is in work; a return
\* (channel closed, or a fatal error) drops what is left.
C10_NoIdLostWhileRunning == tpc # "done" => NoIdLost

\* C10 witness: the channel is closed while an id is still buffered and
\* work holds an id that was already tried
C10_Witness ==
    /\ tpc = "drain"
    /\ ~senders
    /\ queue # <<>>
    /\ work # <<>>
    /\ \E u \in Urns : outstanding[u] > 0

\* the call of handle.track_project that the step records, when it records one
Called == Len(calls') = Len(calls) + 1

\* C11, one call: the handle is called for the id popped last (urn); on NotFound
\* or Timeout the id goes to the tail of work, behind every id already
\* there; on Ok(Some) or Ok(None) work is left as it is and the id is
\* dropped; an id is dispatched only from the front of work or, work being
\* empty, from the channel.
C11_Step ==
    /\ Called =>
          LET outcome == calls'[Len(calls')]
          IN  /\ tpc = "track" /\ urn \in Urns
              /\ outcome \in {"NotFound", "Timeout"} =>
                     (work' = Append(work, urn) /\ urn' = 0 /\ tpc' = "drain")
              /\ outcome \in {"OkSome", "OkNone"} =>
                     (work' = work /\ urn' = 0 /\ tpc' = "drain")
    /\ (tpc # "track" /\ tpc' = "track") =>
          \/ work # <<>> /\ urn' = Head(work) /\ work' = Tail(work)
          \/ work = <<>> /\ queue # <<>> /\ urn' = Head(queue) /\ work' = work

\* C11, the retry scenario: a single id was sent, its first call returned
\* Timeout and its second Ok(Some): there is no third call, work is empty
\* and nothing is being dispatched.
C11_RetryOnTimeout ==
    ( /\ sent = 1
      /\ Len(calls) >= 2
      /\ calls[1] = "Timeout"
      /\ calls[2] = "OkSome" )
    => /\ Len(calls) = 2
       /\ work = <<>> /\ urn = 0 /\ queue = <<>>
       /\ \A u \in Urns : outstanding[u] = 0

\* C11: an id whose call returns NotFound or Timeout is re-appended to the
\* tail of work, an id whose call returns Ok(Some) or Ok(None) is discarded
\* and dispatched again only if it is received again; a single id whose
\* handle returns Timeout then Ok(Some) is called exactly twice and work
\* ends empty.
C11_RetryAtTailOkDiscarded == []C11_RetryOnTimeout /\ [][C11_Step]_vars

\* C11 witness: the single id sent was called twice, Timeout then Ok(Some),
\* and the tracker is back at its drain loop with work empty
C11_Witness ==
    /\ sent = 1
    /\ calls = <<"Timeout", "OkSome">>
    /\ tpc = "drain"
    /\ work = <<>>

\* v occurs in w as a block of consecutive elements
Within(v, w) ==
    \E k \in 0..(Len(w) - Len(v)) : SubSeq(w, k + 1, k + Len(v)) = v

\* the step pops an id and hands it to track_project
Dispatch == tpc # "track" /\ tpc' = "track"

\* C12: in every iteration, every id the channel held when the iteration
\* began has been moved into work, in order, and the drain loop has found
\* the channel empty, before an id is popped and dispatched: a newly arrived
\* id is in work before a previously failed id is attempted again.
C12_DrainBeforePop ==
    [][ /\ Dispatch => (tpc = "select" /\ Within(avail, work))
        /\ (tpc = "drain" /\ tpc' = "select") => queue = <<>> ]_vars

\* C12 witness: an id that arrived while another was being tried is in
\* work, behind the id that failed, when the tracker is about to pop
C12_Witness ==
    /\ tpc = "select"
    /\ avail = <<2>>
    /\ work = <<1, 2>>
    /\ calls = <<"Timeout">>

\* the id waits in work
Waiting(u) == Count(work, u) > 0

\* the id is handed to handle.track_project
Dispatched(u) == tpc = "track" /\ urn = u

-----------------------------------------------------------------------------
(* Properties of run and of the producers, checked under SpecRun *)

\* the ids sent on the work channel by the producers in srcs, in order
SentBy(srcs) == {sendlog[k][2] : k \in {j \in 1..Len(sendlog) : sendlog[j][1] \in srcs}}

\* C14: once the chain subscriber is started, every bootstrap id and every
\* operator urn has been sent; on the work channel no id of an
\* event-triggered query precedes a bootstrap or operator id; and an id
\* that only event-triggered queries have sent is dispatched only after
\* every bootstrap and operator id was dispatched at least once.
C14_BootstrapBeforeEvents ==
    /\ tasks["event_task"] # "none" =>
          (urns = <<>> /\ pa # "bootstrap" /\ rpc \in {"select_all", "returned"})
    /\ \A i, j \in 1..Len(sendlog) :
          (i < j /\ sendlog[i][1] = "query") => sendlog[j][1] = "query"
    /\ \A e \in dispatched :
          e \notin SentBy({"bootstrap", "urns"}) =>
              SentBy({"bootstrap", "urns"}) \subseteq dispatched

\* C14 witness: a bootstrap id, an operator urn and then the id of an
\* event-triggered query were sent, and the tracker has dispatched both ids
C14_Witness ==
    /\ sendlog = << <<"bootstrap", 1>>, <<"urns", 1>>, <<"query", 2>> >>
    /\ dispatched = {1, 2}
    /\ Dispatched(2)

\* hexadecimal decoding: Some(bytes) for an even number of hexadecimal
\* digits, None for any other text
RECURSIVE hex_decode(_)
hex_decode(hex) ==
    IF Len(hex) = 0 THEN Some(<<>>)
    ELSE IF Len(hex) = 1 \/ ~to_digit(hex[1]).some \/ ~to_digit(hex[2]).some
    THEN None
    ELSE LET rest == hex_decode(SubSeq(hex, 3, Len(hex)))
         IN  IF ~rest.some THEN None
             ELSE Some(<<to_digit(hex[1]).val * 16 + to_digit(hex[2]).val>>
                       \o rest.val)

\* the object id is "0x" and the hexadecimal text of exactly 32 bytes
ValidAnchor(object_id) ==
    /\ starts_with(object_id, <<"0", "x">>)
    /\ hex_decode(SubSeq(object_id, 3, Len(object_id))).some
    /\ Len(hex_decode(SubSeq(object_id, 3, Len(object_id))).val) = 32

\* bytes 12..32 of the decoded anchor
AnchorId(object_id) ==
    SubSeq(hex_decode(SubSeq(object_id, 3, Len(object_id))).val, 13, 32)

\* the step sends an id on the work channel
Sends == Len(sendlog') = Len(sendlog) + 1

C16_UrnIffValidAnchor ==
    (pa # "idle" /\ pidx \in 1..Len(projects)) =>
        LET object_id == projects[pidx]
            project   == project_urn[object_id]
        IN  /\ project.tag = "Ok" <=> ValidAnchor(object_id)
            /\ project.tag = "Ok" => project.id = AnchorId(object_id)
            /\ project.tag # "Ok" => project.tag \in {"Invalid", "Int"}

\* the ids of the valid anchors of a list of object ids, in order
RECURSIVE ValidIds(_)
ValidIds(list) ==
    IF list = <<>> THEN <<>>
    ELSE (IF ValidAnchor(Head(list)) THEN <<Urn(AnchorId(Head(list)))>> ELSE <<>>)
         \o ValidIds(Tail(list))

\* C17: process_anchors never ends in a panic, and after it has gone through
\* the first records of the list the ids it has sent are the ids of the
\* well-formed records among them, in order: each malformed record (missing
\* prefix, wrong or odd length, non-hexadecimal characters) is skipped.
C17_MalformedAnchorSkipped ==
    /\ rpc # "panicked"
    /\ pa # "idle" =>
          [k \in 1..Len(sendlog) |-> sendlog[k][2]]
              = ValidIds(SubSeq(projects, 1, pidx - 1))

\* one of the spawned tasks has completed
AnyCompleted == \E t \in TaskNames \cup {"track_task"} : Completed(t)

\* C18: run at select_all can return as soon as one task, whichever it is,
\* has completed, and does return; it returns from select_all only then,
\* and the step leaves the sibling tasks as they are (not awaited, not
\* cancelled); a completed task, such as the tracker after a fatal error,
\* always leads to the end of run.
C18_ReturnsOnFirstCompletion ==
    /\ []((rpc = "select_all" /\ AnyCompleted) => ENABLED select_all)
    /\ [][ rpc' = "returned" =>
             /\ rpc = "select_all"
             /\ AnyCompleted
             /\ tasks' = tasks
             /\ tpc' = tpc ]_vars
    /\ (rpc = "select_all" /\ AnyCompleted) ~> (rpc = "returned")
    /\ (Alive /\ AnyCompleted) ~> ~Alive

\* C18 witness: run has returned after a fatal error of the tracker (the
\* senders of the work channel are alive), every sibling task still running
C18_Witness ==
    /\ rpc = "returned"
    /\ tpc = "done"
    /\ senders
    /\ tasks["web_server"] = "running"
    /\ tasks["client_task"] = "running"
    /\ tasks["event_task"] = "running"
    /\ tasks["query_task"] = "running"
    /\ tasks["update_refs_task"] = "listening"

\* C19: a failure to bind the local socket ends the update_refs task only:
\* run never returns unless one of the other tasks has completed, so the
\* tracker, the subscriber and query_projects keep running after it.
C19_BindFailureEndsOnlyItsTask ==
    [][ rpc' = "returned" =>
          \E t \in (TaskNames \cup {"track_task"}) \ {"update_refs_task"} :
              Completed(t) ]_vars

\* the step puts one event for u, and nothing else, in the dashboard channel
Published(u) == ws'[u] = ws[u] + 1 /\ \A v \in Urns \ {u} : ws'[v] = ws[v]

\* C20: an UpdatedRef event for an id enters the dashboard channel only in
\* the step in which handle.update_refs for that id completes with Ok, one
\* event for that call; a failed call or a line that is no id publishes
\* nothing; when the send fails (the receiver is gone) the event is dropped
\* and update_refs goes on with the next line.
C20_EventAfterSuccessfulUpdate ==
    /\ [](\A u \in Urns : ws[u] <= rpcs[u] /\ (ws_open => ws[u] = rpcs[u]))
    /\ [][ /\ ws' # ws =>
                /\ upc = "update_refs"
                /\ Published(try_from_id(line).val)
                /\ rpcs'[try_from_id(line).val] = rpcs[try_from_id(line).val] + 1
           /\ (rpcs' # rpcs /\ ws_open) => Published(try_from_id(line).val)
           /\ (rpcs' # rpcs /\ ~ws_open) => ws' = ws
           /\ (upc = "update_refs" /\ upc' # upc) =>
                (upc' = "lines" /\ lines' = lines /\ conns' = conns) ]_vars

\* C20 witness: after a successful call whose event was published, the
\* receiver went away, a second successful call for the same id had its
\* event dropped, and update_refs is back at the lines of the connection
C20_Witness ==
    /\ ~ws_open
    /\ rpcs[1] = 2
    /\ ws[1] = 1
    /\ rpcs[2] = 0
    /\ upc = "lines"
    /\ line = IdText(1)
    /\ lines = 2
    /\ conns = 1

\* track_projects returns in this step
Returns == tpc # "done" /\ tpc' = "done"

\* track_projects is at the pop with nothing to work on and nothing to
\* receive from an open channel
Idle == tpc = "select" /\ work = <<>> /\ queue = <<>> /\ senders

\* C21: track_projects returns only from the drain loop with the channel
\* closed, or from a call of handle.track_project that failed with an error
\* other than NotFound and Timeout; an Ok, NotFound or Timeout outcome
\* never ends it; with work empty and an open, empty channel it has no step
\* to take (it waits on the channel), and it leaves the wait only with an
\* id received or with the channel closed.
C21_ReturnsOnlyOnCloseOrFatalError ==
    /\ [](Idle => ~ENABLED (drain \/ select \/ \E outcome \in TrackOutcomes :
                                                   track_project(outcome)))
    /\ [][ /\ Returns =>
                \/ tpc = "drain" /\ ~senders /\ queue = <<>>
                \/ /\ tpc = "track"
                   /\ Called => calls'[Len(calls')] = "Failed"
           /\ (Called /\ calls'[Len(calls')] # "Failed") => ~Returns
           /\ (tpc = "select" /\ work = <<>> /\ tpc' # tpc) =>
                \/ tpc' = "track" /\ queue # <<>> /\ urn' = Head(queue)
                \/ tpc' = "drain" /\ ~senders ]_vars

\* C21 witness: after a Timeout, a NotFound and an Ok outcome for the one id
\* sent, track_projects waits on the open channel
C21_Witness ==
    /\ Idle
    /\ calls = <<"Timeout", "NotFound", "OkSome">>
    /\ sent = 1

\* C22: the query task ends only when the events channel is closed and
\* empty or when the work channel is closed (its receiver, the tracker, is
\* gone): a failed query or a response of any content for one event never
\* ends it.
C22_QueryTaskEndsOnlyOnClosedChannel ==
    [][ (tasks["query_task"] = "running" /\ tasks'["query_task"] = "done") =>
          \/ tasks["event_task"] = "done" /\ events = 0
          \/ tpc = "done" ]_vars

\* C23: a line that is no id, and a call of handle.update_refs that fails,
\* leave update_refs in the loop over the lines of the same connection; a
\* connection that fails to open leaves it in the loop over the incoming
\* connections; and update_refs never stops: at the lines it can read the
\* next line or reach the end of the connection, in a call it can complete
\* the call, and at the listener it can accept the next connection.
C23_FailuresDoNotStopUpdateRefs ==
    /\ [](upc = "lines" => ENABLED stream_lines)
    /\ [](upc = "update_refs" => ENABLED (\E ok \in BOOLEAN : handle_update_refs(ok)))
    /\ []((upc = "incoming" /\ conns < MaxConns) => ENABLED listener_incoming)
    /\ [][ /\ (upc = "lines" /\ lines' = lines + 1 /\ ~try_from_id(line').some) =>
                (upc' = "lines" /\ conns' = conns)
           /\ (upc = "update_refs" /\ upc' # upc /\ rpcs' = rpcs) =>
                (upc' = "lines" /\ conns' = conns /\ lines' = lines)
           /\ (upc = "incoming" /\ conns' = conns + 1) =>
                upc' \in {"incoming", "lines"}
           /\ (upc = "lines" /\ upc' = "incoming") => lines' = lines ]_vars

\* C23 witness: no call has succeeded so far; in the second connection a
\* second line, which is no id, has been passed over and update_refs is at
\* the lines of the connection
C23_Witness ==
    /\ upc = "lines"
    /\ conns = 2
    /\ lines = 2
    /\ line = <<"r", "e", "f", "s">>
    /\ rpcs = [u \in Urns |-> 0]
    /\ ws_open

\* C24: check_authorized_key rejects when no cert key is present; with a
\* cert key and neither authorized list configured it accepts every key;
\* with at least one list configured it accepts exactly the keys that are
\* in the union of the two comma-split lists.
C24_AuthorizedKeyGate ==
    Done =>
        result = IF ~env.cert_key.some THEN "Unauthorized"
                 ELSE IF ~env.authorized_gpg_keys.some /\ ~env.authorized_ssh_keys.some
                 THEN "Ok"
                 ELSE IF SignerListed THEN "Ok"
                 ELSE "Unauthorized"

\* C24 witness: with only the GPG list configured, the gate has accepted
\* the GPG key that the list holds
C24_Witness ==
    /\ Done
    /\ gates = <<"check_authorized_key">>
    /\ env.cert_key = Some(KeyGpg)
    /\ env.authorized_gpg_keys = Some(KeyGpg)
    /\ ~env.authorized_ssh_keys.some
    /\ result = "Ok"

\* the <peer> of refs/remotes/<peer>/<tail>, None for any other refname
PeerOf(refname) ==
    LET suffix == strip_prefix(refname, RefsRemotes)
        parts  == split_once(suffix.val, "/")
    IN  IF suffix.some /\ parts.some THEN Some(parts.val[1]) ELSE None

\* every updated refname is under the remote user
AllUnderRemoteUser ==
    /\ env.remote_user.some
    /\ \A k \in 1..Len(updates) : PeerOf(updates[k]) = Some(env.remote_user.val)

\* C25: authorize_ref_updates returns Ok (the caller goes on to
\* verify_certificate) only if a remote user is set and the <peer> of every
\* updated refname is that remote user, as text; with no remote user, with
\* no cert key, or with a ref under another peer it ends with Unauthorized,
\* for an empty batch too in the first two cases and even when the signer's
\* fingerprint is that of the ref's peer.
C25_RefsUnderRemoteUser ==
    /\ pc = "verify_certificate" => AllUnderRemoteUser
    /\ (~AllUnderRemoteUser \/ ~env.cert_key.some) => pc # "verify_certificate"
    /\ Done => result = "Unauthorized"

\* C25 witness: a push signed by peer p1 of a ref of p1 itself, made as the
\* remote user p2, has been rejected
C25_Witness ==
    /\ Done
    /\ result = "Unauthorized"
    /\ gates = <<"authorize_ref_updates">>
    /\ env.remote_user = Some(P2)
    /\ env.cert_key = Some(KeyOf(P1))
    /\ updates = <<RefOf(P1)>>
    /\ RefOwnedBySigner(updates[1], env.cert_key)

\* run is in the bootstrap: in process_anchors or process_urns, lines 238-239
Bootstrap == rpc \in {"process_anchors", "process_urns"}

\* C26: the bootstrap always completes: run leaves process_anchors and
\* process_urns, and it leaves them either to start the subscriber or with
\* the error of a send to a tracker that has exited.
C26_BootstrapCompletes ==
    /\ [][ (Bootstrap /\ ~Bootstrap') =>
              \/ rpc' = "spawn"
              \/ rpc' = "failed" /\ tpc = "done" ]_vars
    /\ Bootstrap ~> (rpc \in {"spawn", "failed"})

=============================================================================
